---- MODULE Spec2Model ----
(***************************************************************************)
(* cosmovisor process supervision (cosmovisor/process.go).                 *)
(*                                                                         *)
(* Launcher.Run starts the daemon, starts a signal relay goroutine, and    *)
(* blocks in WaitForUpgradeOrExit on a select between the upgrade watcher  *)
(* and the goroutine that waits on the child.  On an upgrade it takes a    *)
(* backup and calls DoUpgrade.  WaitResult is the mutex guarded cell of    *)
(* the same file.                                                          *)
(***************************************************************************)
EXTENDS Naturals, Sequences, FiniteSets

\* number of consecutive Run calls made by the supervisor process
MaxRuns == 2
\* number of termination signals the operating system delivers to the supervisor
MaxSignals == 2
\* number of SetError / AsResult calls made on one WaitResult
MaxCalls == 3

Runs == 1..MaxRuns

\* the nil error / nil pointer
Nil == "nil"

\* signal.Notify(sigs, syscall.SIGQUIT, syscall.SIGTERM)
Signals == {"SIGQUIT", "SIGTERM"}

\* errors cmd.Wait can report for a child that ended without being killed
ExitErrs == {"exit status 1", "signal: terminated"}

\* the error cmd.Wait reports for a child ended by Process.Kill
KilledErr == "signal: killed"

\* the (bool, error) pair returned by Run and WaitForUpgradeOrExit
Result(needs, e) == [needs |-> needs, err |-> e]

\* no value returned yet
Pending == [needs |-> FALSE, err |-> "pending"]

VARIABLES
    run,        \* index of the Run call in progress
    pc,         \* position of Run's main path
    skipBackup, \* cfg.UnsafeSkipBackup
    alive,      \* FALSE once log.Fatal has ended the supervisor process
    child,      \* per run: state of the process behind cmd
    exitErr,    \* the value cmd.Wait returns for this run's child
    waiter,     \* per run: the goroutine `cmdDone <- cmd.Wait()`
    relay,      \* per run: the signal relay goroutine
    relaySig,   \* per run: the signal the relay goroutine forwarded (or tried to)
    sigs,       \* per run: the buffered channel `sigs` (capacity 1)
    delivered,  \* number of signals delivered to the supervisor so far
    watcher,    \* the fileWatcher's polling goroutine
    artifact,   \* TRUE when the upgrade-info file names the expected upgrade
    selErr,     \* `err` received from cmdDone in the select
    waitRet,    \* what WaitForUpgradeOrExit returned in this run
    ret,        \* what Run returned in this run
    backup,     \* progress of doBackup in this run
    upgraded,   \* DoUpgrade was invoked in this run
    upgradeErr, \* what DoUpgrade returned in this run
    notified,   \* the select received the upgrade notification in this run
    fired,      \* the watcher offered its notification while the child was running
    killSent,   \* cmd.Process.Kill was called in this run
    killErr,    \* what cmd.Process.Kill returned in this run
    checks,     \* number of l.fw.CheckUpdate calls in this run
    artAtExit,  \* whether the artifact matched when this run's child exited
    wrErr,      \* WaitResult.err
    wrInfo,     \* WaitResult.info
    mutex,      \* WaitResult.mutex: the goroutine holding it, or Nil
    gpc,        \* per goroutine: position inside SetError / AsResult
    garg,       \* per goroutine: the argument of its SetError call
    gres,       \* per goroutine: the pair its last AsResult returned
    calls       \* number of WaitResult calls started

runVars == <<run, pc, skipBackup, alive, child, exitErr, waiter, relay, relaySig,
             sigs, delivered, watcher, artifact, selErr, waitRet, ret, backup,
             upgraded, upgradeErr, notified, fired, killSent, killErr, checks,
             artAtExit>>

wrVars == <<wrErr, wrInfo, mutex, gpc, garg, gres, calls>>

vars == <<runVars, wrVars>>

\* history of one Run call, cleared when the caller invokes Run again
runLocal == <<selErr, waitRet, ret, backup, upgraded, upgradeErr, notified,
              fired, killSent, killErr, checks, artAtExit>>

\* the child, its waiter and the watcher
procVars == <<child, exitErr, waiter, watcher, artifact>>

\* the relay goroutines and their channels
relayVars == <<relay, relaySig, sigs, delivered>>

----------------------------------------------------------------------------
(* WaitResult: goroutines calling SetError and AsResult                    *)

Goroutines == {"g1", "g2"}

\* errors passed to SetError
Errs == {"e1", "e2"}

\* a non-nil *UpgradeInfo
SomeInfo == "v2"

\* the zero WaitResult, and no call in progress
WRIdle ==
    /\ wrErr = Nil
    /\ wrInfo = Nil
    /\ mutex = Nil
    /\ gpc = [g \in Goroutines |-> "idle"]
    /\ garg = [g \in Goroutines |-> Nil]
    /\ gres = [g \in Goroutines |-> <<Nil, Nil>>]
    /\ calls = 0

\* a WaitResult as the package can construct it: info nil or set, no error yet
WRInit ==
    /\ wrErr = Nil
    /\ wrInfo \in {Nil, SomeInfo}
    /\ mutex = Nil
    /\ gpc = [g \in Goroutines |-> "idle"]
    /\ garg = [g \in Goroutines |-> Nil]
    /\ gres = [g \in Goroutines |-> <<Nil, Nil>>]
    /\ calls = 0

----------------------------------------------------------------------------
(* Launcher.Run                                                            *)

RunInit ==
    /\ run = 1
    /\ pc = "start"
    /\ skipBackup \in BOOLEAN
    /\ alive = TRUE
    /\ child = [r \in Runs |-> "none"]
    /\ exitErr = Nil
    /\ waiter = [r \in Runs |-> "none"]
    /\ relay = [r \in Runs |-> "none"]
    /\ relaySig = [r \in Runs |-> Nil]
    /\ sigs = [r \in Runs |-> <<>>]
    /\ delivered = 0
    /\ watcher = "none"
    /\ artifact = FALSE
    /\ selErr = Nil
    /\ waitRet = Pending
    /\ ret = Pending
    /\ backup = "none"
    /\ upgraded = FALSE
    /\ upgradeErr = Nil
    /\ notified = FALSE
    /\ fired = FALSE
    /\ killSent = FALSE
    /\ killErr = Nil
    /\ checks = 0
    /\ artAtExit = "unknown"

\* Run returns (needs, e)
Return(needs, e) ==
    /\ ret' = Result(needs, e)
    /\ pc' = "done"

\* the errors Run returns before the child runs: CurrentBin failed,
\* EnsureBinary failed, cmd.Start failed
StartErrs == {"error creating symlink to genesis", "current binary is invalid",
              "launching process failed"}

\* a start failure reported only after the relay goroutine was started
StartCmd_RelayFirst ==
    /\ alive /\ pc = "start"
    /\ \/ /\ pc' = "relay"
          /\ ret' = ret
          /\ child' = [child EXCEPT ![run] = "running"]
          /\ relay' = relay
       \/ /\ \E e \in StartErrs : Return(FALSE, e)
          /\ child' = child
          /\ relay' = [relay EXCEPT ![run] = "recv"]
    /\ UNCHANGED <<run, skipBackup, alive, exitErr, waiter, watcher, artifact,
                   relaySig, sigs, delivered, selErr, waitRet, backup, upgraded,
                   upgradeErr, notified, fired, killSent, killErr, checks,
                   artAtExit, wrVars>>

\* bin, err := l.cfg.CurrentBin(); EnsureBinary(bin); cmd := exec.Command(bin, args...);
\* cmd.Start(): each may fail and end the run before a child exists
StartCmd ==
    /\ alive /\ pc = "start"
    /\ \/ /\ pc' = "relay"
          /\ ret' = ret
          /\ child' = [child EXCEPT ![run] = "running"]
       \/ /\ \E e \in StartErrs : Return(FALSE, e)
          /\ child' = child
    /\ UNCHANGED <<run, skipBackup, alive, exitErr, waiter, watcher, artifact,
                   relayVars, selErr, waitRet, backup, upgraded, upgradeErr,
                   notified, fired, killSent, killErr, checks, artAtExit, wrVars>>

\* sigs := make(chan os.Signal, 1); signal.Notify(...); go func() { sig := <-sigs ... }()
StartRelay ==
    /\ alive /\ pc = "relay"
    /\ relay' = [relay EXCEPT ![run] = "recv"]
    /\ pc' = "wait"
    /\ UNCHANGED <<run, skipBackup, alive, procVars, relaySig, sigs, delivered,
                   runLocal, wrVars>>


\* WaitForUpgradeOrExit up to its select: go func() { cmdDone <- cmd.Wait() }(),
\* and the select's l.fw.MonitorUpdate(currentUpgradeName), which starts the
\* watcher's polling
EnterWait ==
    /\ alive /\ pc = "wait"
    /\ waiter' = [waiter EXCEPT ![run] = "waiting"]
    /\ watcher' = "polling"
    /\ pc' = "select"
    /\ UNCHANGED <<run, skipBackup, alive, child, exitErr, artifact,
                   relayVars, runLocal, wrVars>>

\* case <-l.fw.MonitorUpdate(currentUpgradeName):
SelectUpgrade ==
    /\ alive /\ pc = "select"
    /\ watcher = "sending"
    /\ watcher' = "done"
    /\ notified' = TRUE
    /\ fired' = (child[run] = "running")
    /\ pc' = "kill"
    /\ UNCHANGED <<run, skipBackup, alive, child, exitErr, waiter, artifact,
                   relayVars, selErr, waitRet, ret, backup, upgraded, upgradeErr,
                   killSent, killErr, checks, artAtExit, wrVars>>

\* a select that does not wait for cmdDone (as with a default case)
SelectDone_NoWait ==
    /\ alive /\ pc = "select"
    /\ waiter' = waiter
    /\ selErr' = exitErr
    /\ pc' = "stop"
    /\ UNCHANGED <<run, skipBackup, alive, child, exitErr, watcher, artifact,
                   relayVars, waitRet, ret, backup, upgraded, upgradeErr,
                   notified, fired, killSent, killErr, checks, artAtExit, wrVars>>

\* case err := <-cmdDone:
SelectDone ==
    /\ alive /\ pc = "select"
    /\ waiter[run] = "sending"
    /\ waiter' = [waiter EXCEPT ![run] = "done"]
    /\ selErr' = exitErr
    /\ pc' = "stop"
    /\ UNCHANGED <<run, skipBackup, alive, child, exitErr, watcher, artifact,
                   relayVars, waitRet, ret, backup, upgraded, upgradeErr,
                   notified, fired, killSent, killErr, checks, artAtExit, wrVars>>

\* the state of a process after Process.Kill: a running process is dying, a
\* finished one is left as it is (Kill's error is dropped)
Killed(st) == IF st = "running" THEN "dying" ELSE st

\* what Process.Kill returns: an error once the process has been waited on
KillErr(st) == IF st = "reaped" THEN "os: process already finished" ELSE Nil

\* a kill that is never sent
KillChild_NoKill ==
    /\ alive /\ pc = "kill"
    /\ waitRet' = Result(TRUE, Nil)
    /\ pc' = "checkwait"
    /\ UNCHANGED <<run, skipBackup, alive, child, killSent, killErr, exitErr, waiter, watcher,
                   artifact, relayVars, selErr, ret, backup, upgraded, upgradeErr,
                   notified, fired, checks, artAtExit, wrVars>>

\* a failed kill returned as the error of the wait
KillChild_Escalate ==
    /\ alive /\ pc = "kill"
    /\ child' = [child EXCEPT ![run] = Killed(child[run])]
    /\ killSent' = TRUE
    /\ killErr' = KillErr(child[run])
    /\ waitRet' = IF KillErr(child[run]) = Nil THEN Result(TRUE, Nil)
                  ELSE Result(FALSE, KillErr(child[run]))
    /\ pc' = "checkwait"
    /\ UNCHANGED <<run, skipBackup, alive, exitErr, waiter, watcher, artifact,
                   relayVars, selErr, ret, backup, upgraded, upgradeErr,
                   notified, fired, checks, artAtExit, wrVars>>

\* _ = cmd.Process.Kill(); return true, nil
KillChild ==
    /\ alive /\ pc = "kill"
    /\ child' = [child EXCEPT ![run] = Killed(child[run])]
    /\ killSent' = TRUE
    /\ killErr' = KillErr(child[run])
    /\ waitRet' = Result(TRUE, Nil)
    /\ pc' = "checkwait"
    /\ UNCHANGED <<run, skipBackup, alive, exitErr, waiter, watcher, artifact,
                   relayVars, selErr, ret, backup, upgraded, upgradeErr,
                   notified, fired, checks, artAtExit, wrVars>>

\* the watcher left polling
StopWatcher_NoStop ==
    /\ alive /\ pc = "stop"
    /\ pc' = "inspect"
    /\ UNCHANGED <<run, skipBackup, alive, child, exitErr, waiter, watcher, artifact,
                   relayVars, runLocal, wrVars>>

\* l.fw.Stop()
StopWatcher ==
    /\ alive /\ pc = "stop"
    /\ watcher' = "stopped"
    /\ pc' = "inspect"
    /\ UNCHANGED <<run, skipBackup, alive, child, exitErr, waiter, artifact,
                   relayVars, runLocal, wrVars>>

\* a clean exit reported as an upgrade
InspectErr_Inverted ==
    /\ alive /\ pc = "inspect"
    /\ IF selErr = Nil
       THEN /\ waitRet' = Result(TRUE, Nil)
            /\ pc' = "checkwait"
       ELSE /\ waitRet' = waitRet
            /\ pc' = "recheck"
    /\ UNCHANGED <<run, skipBackup, alive, procVars, relayVars, selErr, ret,
                   backup, upgraded, upgradeErr, notified, fired, killSent, killErr,
                   checks, artAtExit, wrVars>>

\* if err == nil { return false, nil }
InspectErr ==
    /\ alive /\ pc = "inspect"
    /\ IF selErr = Nil
       THEN /\ waitRet' = Result(FALSE, Nil)
            /\ pc' = "checkwait"
       ELSE /\ waitRet' = waitRet
            /\ pc' = "recheck"
    /\ UNCHANGED <<run, skipBackup, alive, procVars, relayVars, selErr, ret,
                   backup, upgraded, upgradeErr, notified, fired, killSent, killErr,
                   checks, artAtExit, wrVars>>

\* l.fw.CheckUpdate(currentUpgradeName): the synchronous probe of the artifact
CheckUpdate == artifact

\* the exit error surfaced without the recheck
Recheck_NoCheck ==
    /\ alive /\ pc = "recheck"
    /\ checks' = checks + 1
    /\ waitRet' = Result(FALSE, selErr)
    /\ pc' = "checkwait"
    /\ UNCHANGED <<run, skipBackup, alive, procVars, relayVars, selErr, ret,
                   backup, upgraded, upgradeErr, notified, fired, killSent, killErr,
                   artAtExit, wrVars>>

\* the exit error dropped when the recheck finds nothing
Recheck_DropErr ==
    /\ alive /\ pc = "recheck"
    /\ checks' = checks + 1
    /\ waitRet' = IF ~CheckUpdate THEN Result(FALSE, Nil) ELSE Result(TRUE, Nil)
    /\ pc' = "checkwait"
    /\ UNCHANGED <<run, skipBackup, alive, procVars, relayVars, selErr, ret,
                   backup, upgraded, upgradeErr, notified, fired, killSent, killErr,
                   artAtExit, wrVars>>

\* if !l.fw.CheckUpdate(currentUpgradeName) { return false, err }; return true, nil
Recheck ==
    /\ alive /\ pc = "recheck"
    /\ checks' = checks + 1
    /\ waitRet' = IF ~CheckUpdate THEN Result(FALSE, selErr) ELSE Result(TRUE, Nil)
    /\ pc' = "checkwait"
    /\ UNCHANGED <<run, skipBackup, alive, procVars, relayVars, selErr, ret,
                   backup, upgraded, upgradeErr, notified, fired, killSent, killErr,
                   artAtExit, wrVars>>

\* only the error tested, needsUpdate ignored
CheckWait_ErrOnly ==
    /\ alive /\ pc = "checkwait"
    /\ IF waitRet.err # Nil
       THEN Return(FALSE, waitRet.err)
       ELSE /\ pc' = "backup"
            /\ ret' = ret
    /\ UNCHANGED <<run, skipBackup, alive, procVars, relayVars, selErr, waitRet,
                   backup, upgraded, upgradeErr, notified, fired, killSent, killErr,
                   checks, artAtExit, wrVars>>

\* if err != nil || !needsUpdate { return false, err }
CheckWait ==
    /\ alive /\ pc = "checkwait"
    /\ IF waitRet.err # Nil \/ ~waitRet.needs
       THEN Return(FALSE, waitRet.err)
       ELSE /\ pc' = "backup"
            /\ ret' = ret
    /\ UNCHANGED <<run, skipBackup, alive, procVars, relayVars, selErr, waitRet,
                   backup, upgraded, upgradeErr, notified, fired, killSent, killErr,
                   checks, artAtExit, wrVars>>

\* the UnsafeSkipBackup test inverted
BeginBackup_Inverted ==
    /\ alive /\ pc = "backup"
    /\ IF ~skipBackup
       THEN /\ backup' = "skipped"
            /\ pc' = "upgrade"
       ELSE /\ backup' = "copying"
            /\ pc' = "copy"
    /\ UNCHANGED <<run, skipBackup, alive, procVars, relayVars, selErr, waitRet,
                   ret, upgraded, upgradeErr, notified, fired, killSent, killErr,
                   checks, artAtExit, wrVars>>

\* doBackup: if !cfg.UnsafeSkipBackup { ... copy.Copy ... }; return nil
BeginBackup ==
    /\ alive /\ pc = "backup"
    /\ IF skipBackup
       THEN /\ backup' = "skipped"
            /\ pc' = "upgrade"
       ELSE /\ backup' = "copying"
            /\ pc' = "copy"
    /\ UNCHANGED <<run, skipBackup, alive, procVars, relayVars, selErr, waitRet,
                   ret, upgraded, upgradeErr, notified, fired, killSent, killErr, checks,
                   artAtExit, wrVars>>

\* the error doBackup returns when copy.Copy fails
BackupErr == "error while taking data backup"

\* a failed copy that does not stop the upgrade
CopyData_IgnoreErr ==
    /\ alive /\ pc = "copy"
    /\ \E ok \in BOOLEAN :
          /\ backup' = IF ok THEN "ok" ELSE "failed"
          /\ pc' = "upgrade"
          /\ ret' = ret
    /\ UNCHANGED <<run, skipBackup, alive, procVars, relayVars, selErr, waitRet,
                   upgraded, upgradeErr, notified, fired, killSent, killErr, checks,
                   artAtExit, wrVars>>

\* err := copy.Copy(cfg.Home+"/data", dst); if err != nil { return fmt.Errorf(...) }
\* and Run's `if err := doBackup(l.cfg); err != nil { return false, err }`
CopyData ==
    /\ alive /\ pc = "copy"
    /\ \/ /\ backup' = "ok"
          /\ pc' = "upgrade"
          /\ ret' = ret
       \/ /\ backup' = "failed"
          /\ Return(FALSE, BackupErr)
    /\ UNCHANGED <<run, skipBackup, alive, procVars, relayVars, selErr, waitRet,
                   upgraded, upgradeErr, notified, fired, killSent, killErr, checks,
                   artAtExit, wrVars>>

\* the errors DoUpgrade can return
UpgradeErrs == {Nil, "upgrade failed"}

\* return true, DoUpgrade(l.cfg, l.fw.currentInfo)
DoUpgrade ==
    /\ alive /\ pc = "upgrade"
    /\ \E e \in UpgradeErrs :
          /\ upgraded' = TRUE
          /\ upgradeErr' = e
          /\ Return(TRUE, e)
    /\ UNCHANGED <<run, skipBackup, alive, procVars, relayVars, selErr, waitRet,
                   backup, notified, fired, killSent, killErr, checks, artAtExit, wrVars>>

\* the caller's loop: after (true, nil) it invokes Run again with the new
\* binary, whose expected upgrade name the old artifact no longer matches
Rerun ==
    /\ alive /\ pc = "done"
    /\ ret = Result(TRUE, Nil)
    /\ run < MaxRuns
    /\ run' = run + 1
    /\ pc' = "start"
    /\ watcher' = "none"
    /\ artifact' = FALSE
    /\ selErr' = Nil
    /\ waitRet' = Pending
    /\ ret' = Pending
    /\ backup' = "none"
    /\ upgraded' = FALSE
    /\ upgradeErr' = Nil
    /\ notified' = FALSE
    /\ fired' = FALSE
    /\ killSent' = FALSE
    /\ killErr' = Nil
    /\ checks' = 0
    /\ artAtExit' = "unknown"
    /\ exitErr' = Nil
    /\ UNCHANGED <<skipBackup, alive, child, waiter, relayVars, wrVars>>

----------------------------------------------------------------------------
(* the child process, the goroutines and the environment                   *)

\* the daemon writes the upgrade-info file naming the expected upgrade
WriteArtifact ==
    /\ alive
    /\ child[run] = "running"
    /\ ~artifact
    /\ artifact' = TRUE
    /\ UNCHANGED <<run, pc, skipBackup, alive, child, exitErr, waiter, watcher,
                   relayVars, runLocal, wrVars>>

\* the artifact as seen when the child of run r ends
ArtAtExit(r) == IF r # run THEN artAtExit ELSE IF artifact THEN "yes" ELSE "no"

\* the child ends on its own: cleanly (nil) or with an exit error
ChildExit(r) ==
    /\ alive
    /\ child[r] = "running"
    /\ \E e \in ExitErrs \cup {Nil} :
          exitErr' = e
    /\ child' = [child EXCEPT ![r] = "exited"]
    /\ artAtExit' = ArtAtExit(r)
    /\ UNCHANGED <<run, pc, skipBackup, alive, waiter, watcher, artifact,
                   relayVars, selErr, waitRet, ret, backup, upgraded, upgradeErr,
                   notified, fired, killSent, killErr, checks, wrVars>>

\* the killed child ends
ChildDie(r) ==
    /\ alive
    /\ child[r] = "dying"
    /\ exitErr' = IF r = run THEN KilledErr ELSE exitErr
    /\ child' = [child EXCEPT ![r] = "exited"]
    /\ artAtExit' = ArtAtExit(r)
    /\ UNCHANGED <<run, pc, skipBackup, alive, waiter, watcher, artifact,
                   relayVars, selErr, waitRet, ret, backup, upgraded, upgradeErr,
                   notified, fired, killSent, killErr, checks, wrVars>>

\* cmd.Wait() returns in the waiter goroutine, which then blocks on cmdDone
WaitReturns(r) ==
    /\ alive
    /\ waiter[r] = "waiting"
    /\ child[r] = "exited"
    /\ child' = [child EXCEPT ![r] = "reaped"]
    /\ waiter' = [waiter EXCEPT ![r] = "sending"]
    /\ UNCHANGED <<run, pc, skipBackup, alive, exitErr, watcher, artifact,
                   relayVars, runLocal, wrVars>>

\* a tick of the watcher: CheckUpdate matched, so it offers the notification
WatcherPoll ==
    /\ alive
    /\ watcher = "polling"
    /\ CheckUpdate
    /\ watcher' = "sending"
    /\ UNCHANGED <<run, pc, skipBackup, alive, child, exitErr, waiter, artifact,
                   relayVars, runLocal, wrVars>>

\* the channels signal.Notify has registered and never unregisters
Registered == {r \in Runs : relay[r] # "none"}

\* the operating system delivers SIGQUIT or SIGTERM to the supervisor; a
\* registered channel whose buffer is full misses it, and so does (as far as
\* anything can tell) a channel whose relay goroutine has ended
DeliverSignal ==
    /\ alive
    /\ delivered < MaxSignals
    /\ Registered # {}
    /\ \E s \in Signals :
          sigs' = [r \in Runs |->
                     IF r \in Registered /\ relay[r] = "recv" /\ Len(sigs[r]) < 1
                     THEN Append(sigs[r], s) ELSE sigs[r]]
    /\ delivered' = delivered + 1
    /\ UNCHANGED <<run, pc, skipBackup, alive, procVars, relay, relaySig,
                   runLocal, wrVars>>

\* whether cmd.Process.Signal fails: os: process already finished, once waited on
SignalFails(st) == st = "reaped"

\* a relay goroutine that loops: after a forward it receives again
RelayForward_Rearm(r) ==
    /\ alive
    /\ relay[r] = "recv"
    /\ sigs[r] # <<>>
    /\ relaySig' = [relaySig EXCEPT ![r] = Head(sigs[r])]
    /\ sigs' = [sigs EXCEPT ![r] = Tail(sigs[r])]
    /\ relay' = [relay EXCEPT ![r] = IF SignalFails(child[r]) THEN "failed" ELSE "recv"]
    /\ UNCHANGED <<run, pc, skipBackup, alive, procVars, delivered, runLocal, wrVars>>

\* sig := <-sigs; err := cmd.Process.Signal(sig)
RelayForward(r) ==
    /\ alive
    /\ relay[r] = "recv"
    /\ sigs[r] # <<>>
    /\ relaySig' = [relaySig EXCEPT ![r] = Head(sigs[r])]
    /\ sigs' = [sigs EXCEPT ![r] = Tail(sigs[r])]
    /\ relay' = [relay EXCEPT ![r] = IF SignalFails(child[r]) THEN "failed" ELSE "done"]
    /\ UNCHANGED <<run, pc, skipBackup, alive, procVars, delivered, runLocal, wrVars>>

\* a failed forward that is only logged
RelayFatal_Swallow(r) ==
    /\ alive
    /\ relay[r] = "failed"
    /\ relay' = [relay EXCEPT ![r] = "done"]
    /\ UNCHANGED <<run, pc, skipBackup, alive, procVars, relaySig, sigs, delivered,
                   runLocal, wrVars>>

\* if err != nil { log.Fatal(bin, "terminated. Error:", err) }
RelayFatal(r) ==
    /\ alive
    /\ relay[r] = "failed"
    /\ relay' = [relay EXCEPT ![r] = "fatal"]
    /\ alive' = FALSE
    /\ UNCHANGED <<run, pc, skipBackup, procVars, relaySig, sigs, delivered,
                   runLocal, wrVars>>

Init == RunInit /\ WRIdle

\* every step of one Run call, of its goroutines, of its child and of the
\* environment
RunSteps ==
    \/ StartCmd
    \/ StartRelay
    \/ EnterWait
    \/ SelectUpgrade
    \/ SelectDone
    \/ KillChild
    \/ StopWatcher
    \/ InspectErr
    \/ Recheck
    \/ CheckWait
    \/ BeginBackup
    \/ CopyData
    \/ DoUpgrade
    \/ WriteArtifact
    \/ WatcherPoll
    \/ DeliverSignal
    \/ \E r \in Runs : ChildExit(r)
    \/ \E r \in Runs : ChildDie(r)
    \/ \E r \in Runs : WaitReturns(r)
    \/ \E r \in Runs : RelayForward(r)
    \/ \E r \in Runs : RelayFatal(r)

Next ==
    \/ RunSteps
    \/ Rerun

Spec == Init /\ [][Next]_vars


\* the steps of the goroutine that called Run
MainPath ==
    \/ StartCmd \/ StartRelay \/ EnterWait \/ SelectUpgrade \/ SelectDone
    \/ KillChild \/ StopWatcher \/ InspectErr \/ Recheck \/ CheckWait
    \/ BeginBackup \/ CopyData \/ DoUpgrade

\* the Go scheduler runs every goroutine that can take a step, copy.Copy and
\* DoUpgrade return, and a killed process ends; nothing is assumed of the
\* daemon's own exit, of the artifact, of signals or of the caller
Fairness ==
    /\ WF_vars(MainPath)
    /\ WF_vars(WatcherPoll)
    /\ \A r \in Runs :
          /\ WF_vars(WaitReturns(r))
          /\ WF_vars(ChildDie(r))
          /\ WF_vars(RelayForward(r))
          /\ WF_vars(RelayFatal(r))

FairSpec == Spec /\ Fairness

\* one Run call on its own, under the same fairness
FairRunSpec == Init /\ [][RunSteps]_vars /\ Fairness

----------------------------------------------------------------------------
(* WaitResult.SetError and WaitResult.AsResult, called concurrently        *)

\* Run has not been called
RunIdle == RunInit /\ skipBackup = FALSE

\* a goroutine calls u.SetError(e)
CallSetError(g) ==
    /\ gpc[g] = "idle"
    /\ calls < MaxCalls
    /\ \E e \in Errs \cup {Nil} : garg' = [garg EXCEPT ![g] = e]
    /\ gpc' = [gpc EXCEPT ![g] = "set_lock"]
    /\ calls' = calls + 1
    /\ UNCHANGED <<runVars, wrErr, wrInfo, mutex, gres>>

\* a goroutine calls u.AsResult()
CallAsResult(g) ==
    /\ gpc[g] = "idle"
    /\ calls < MaxCalls
    /\ gpc' = [gpc EXCEPT ![g] = "as_lock"]
    /\ calls' = calls + 1
    /\ UNCHANGED <<runVars, wrErr, wrInfo, mutex, garg, gres>>

\* u.mutex.Lock(), in SetError or in AsResult
Lock(g) ==
    /\ gpc[g] \in {"set_lock", "as_lock"}
    /\ mutex = Nil
    /\ mutex' = g
    /\ gpc' = [gpc EXCEPT ![g] = IF gpc[g] = "set_lock" THEN "set_body" ELSE "as_body"]
    /\ UNCHANGED <<runVars, wrErr, wrInfo, garg, gres, calls>>

\* the info test left out
SetErrorBody_NoInfoCheck(g) ==
    /\ gpc[g] = "set_body"
    /\ wrErr' = IF garg[g] # Nil THEN garg[g] ELSE wrErr
    /\ gpc' = [gpc EXCEPT ![g] = "unlock"]
    /\ UNCHANGED <<runVars, wrInfo, mutex, garg, gres, calls>>

\* if u.info == nil && myErr != nil { u.err = myErr }
SetErrorBody(g) ==
    /\ gpc[g] = "set_body"
    /\ wrErr' = IF wrInfo = Nil /\ garg[g] # Nil THEN garg[g] ELSE wrErr
    /\ gpc' = [gpc EXCEPT ![g] = "unlock"]
    /\ UNCHANGED <<runVars, wrInfo, mutex, garg, gres, calls>>

\* return u.info, u.err
AsResultBody(g) ==
    /\ gpc[g] = "as_body"
    /\ gres' = [gres EXCEPT ![g] = <<wrInfo, wrErr>>]
    /\ gpc' = [gpc EXCEPT ![g] = "unlock"]
    /\ UNCHANGED <<runVars, wrErr, wrInfo, mutex, garg, calls>>

\* defer u.mutex.Unlock()
Unlock(g) ==
    /\ gpc[g] = "unlock"
    /\ mutex = g
    /\ mutex' = Nil
    /\ gpc' = [gpc EXCEPT ![g] = "idle"]
    /\ UNCHANGED <<runVars, wrErr, wrInfo, garg, gres, calls>>

InitWR == RunIdle /\ WRInit

NextWR ==
    \/ \E g \in Goroutines : CallSetError(g)
    \/ \E g \in Goroutines : CallAsResult(g)
    \/ \E g \in Goroutines : Lock(g)
    \/ \E g \in Goroutines : SetErrorBody(g)
    \/ \E g \in Goroutines : AsResultBody(g)
    \/ \E g \in Goroutines : Unlock(g)

SpecWR == InitWR /\ [][NextWR]_vars

----------------------------------------------------------------------------
(* Properties                                                              *)

\* C1 (as stated): whenever the select received the upgrade notification while
\* the child was still running, Run has sent the kill, has completed or skipped
\* the backup, and returns (true, nil).
C1_NotifiedReturnsRestart ==
    (pc = "done" /\ fired) =>
        /\ killSent
        /\ backup \in {"ok", "skipped"}
        /\ ret = Result(TRUE, Nil)

\* C1 (amended): whenever the select received the upgrade notification, Run has
\* sent the kill and run the backup step (skipped exactly when backups are
\* disabled); it returns (false, backup error) when the copy failed, and
\* otherwise (true, e) with e the result of DoUpgrade, so (true, nil) exactly
\* when the swap succeeded.
C1_NotifiedOutcome ==
    (pc = "done" /\ notified) =>
        /\ killSent
        /\ backup \in {"ok", "skipped", "failed"}
        /\ (backup = "skipped") <=> skipBackup
        /\ backup = "failed" => ret = Result(FALSE, BackupErr) /\ ~upgraded
        /\ backup # "failed" => upgraded /\ ret = Result(TRUE, upgradeErr)

\* C1 witness: notification received while the child ran, backup copied, (true, nil)
C1_Witness ==
    /\ pc = "done" /\ fired /\ killSent
    /\ backup = "ok"
    /\ ret = Result(TRUE, Nil)

\* C2 (as stated): when the child exited with a non-nil error and the artifact
\* matched at that moment, Run returns (true, nil).
C2_CrashWithArtifactRestarts ==
    (pc = "done" /\ artAtExit = "yes" /\ exitErr \in ExitErrs) => ret = Result(TRUE, Nil)

\* C2 (amended): when the child exited with a non-nil error and the artifact
\* matched at that moment, WaitForUpgradeOrExit returns (true, nil) with the
\* exit error discarded, through exactly one synchronous check when the select
\* took the process-completion branch; Run then returns (false, backup error)
\* when the copy failed and otherwise (true, e) with e the result of DoUpgrade.
C2_CrashWithArtifactOutcome ==
    (artAtExit = "yes" /\ exitErr # Nil) =>
        /\ waitRet # Pending => waitRet = Result(TRUE, Nil)
        /\ (waitRet # Pending /\ ~notified) => checks = 1
        /\ pc = "done" =>
              ret = IF backup = "failed" THEN Result(FALSE, BackupErr)
                    ELSE Result(TRUE, upgradeErr)

\* C2 witness: a crash with the artifact present, the watcher stopped before it
\* delivered anything, one recheck, (true, nil)
C2_Witness ==
    /\ pc = "done" /\ artAtExit = "yes" /\ exitErr \in ExitErrs
    /\ ~notified /\ watcher = "stopped" /\ checks = 1
    /\ ret = Result(TRUE, Nil)

\* C3: when the child exited with a non-nil error and no matching artifact
\* exists, Run returns (false, e) with e exactly the exit error, and neither
\* the backup nor DoUpgrade was performed.
C3_ExitErrorSurfaced ==
    (pc = "done" /\ exitErr # Nil /\ ~artifact) =>
        /\ ret = Result(FALSE, exitErr)
        /\ backup = "none"
        /\ ~upgraded

\* C3 witness: the child ended with "signal: terminated", no artifact, Run returned it
C3_Witness ==
    /\ pc = "done" /\ ~artifact /\ checks = 1
    /\ exitErr = "signal: terminated"
    /\ ret = Result(FALSE, "signal: terminated")

\* C4: when the child exited cleanly and no artifact appeared, Run returns
\* (false, nil) and no backup was made.
C4_CleanExit ==
    (pc = "done" /\ child[run] \in {"exited", "reaped"} /\ exitErr = Nil /\ ~artifact) =>
        /\ ret = Result(FALSE, Nil)
        /\ backup = "none"

\* C4 witness: a clean exit without artifact, returned as (false, nil)
C4_Witness ==
    /\ pc = "done" /\ child[run] = "reaped" /\ exitErr = Nil /\ ~artifact
    /\ ret = Result(FALSE, Nil)

\* C5 (as stated): the backup copy runs only once the child's wait has completed.
C5_BackupAfterChildReaped ==
    backup = "copying" => child[run] = "reaped"

\* C6: when an upgrade was detected and the copy of the backup failed, Run
\* returns needsRestart=false with a non-nil error and DoUpgrade was not invoked.
C6_BackupFailureWithholdsRestart ==
    backup = "failed" =>
        /\ pc = "done"
        /\ waitRet = Result(TRUE, Nil)
        /\ ~ret.needs
        /\ ret.err \notin {Nil, Pending.err}
        /\ ~upgraded

\* C6 witness: upgrade notified, copy failed, Run returned
C6_Witness ==
    /\ pc = "done" /\ notified /\ backup = "failed"
    /\ ret = Result(FALSE, BackupErr)

\* C7 (as stated): Run never returns needsRestart=true together with a non-nil error.
C7_NoRestartWithError ==
    pc = "done" => ~(ret.needs /\ ret.err # Nil)

\* C8 (as stated): once WaitForUpgradeOrExit has returned, the child has
\* finished and has been waited on.
C8_ChildReapedOnReturn ==
    waitRet # Pending => child[run] = "reaped"

\* C9 (as stated): once a non-nil error is recorded in the WaitResult, no later
\* SetError call replaces it.
C9_FirstErrorWins ==
    [][wrErr # Nil => wrErr' = wrErr]_vars

\* C10: when the relay goroutine's cmd.Process.Signal fails, the only thing
\* the goroutine does next is end the supervisor process (log.Fatal); the
\* failure is not swallowed and Run's return value is not touched by it.
C10_RelayFailureIsFatal ==
    [][\A r \in Runs :
          /\ (relay[r] = "recv" /\ relay'[r] # "recv") =>
                (relay'[r] = "failed" <=> SignalFails(child[r]))
          /\ (relay[r] = "failed" /\ relay'[r] # "failed") =>
                /\ relay'[r] = "fatal"
                /\ ~alive'
                /\ ret' = ret /\ pc' = pc]_vars

\* C10 witness: a relay goroutine failed to forward and ended the supervisor
C10_Witness ==
    \E r \in Runs : relay[r] = "fatal" /\ relaySig[r] \in Signals /\ ~alive


\* C11: a relay goroutine forwards one signal only: the step that takes a
\* signal from sigs forwards exactly that signal (the first one received) and
\* ends the goroutine; once it has forwarded, it never receives or forwards
\* again, whatever is delivered later.
C11_RelayForwardsFirstSignalOnce ==
    [][\A r \in Runs :
          /\ Len(sigs'[r]) < Len(sigs[r]) =>
                /\ relay[r] = "recv" /\ relaySig[r] = Nil
                /\ relaySig'[r] = Head(sigs[r])
                /\ relay'[r] \in {"done", "failed"}
          /\ relaySig[r] # Nil =>
                /\ relaySig'[r] = relaySig[r]
                /\ sigs'[r] = sigs[r]
                /\ relay'[r] # "recv"]_vars

\* C11 witness: in the first run the relay forwarded SIGQUIT, and a second
\* signal was delivered afterwards without being forwarded
C11_Witness ==
    /\ run = 1 /\ pc = "select"
    /\ relay[1] = "done" /\ relaySig[1] = "SIGQUIT"
    /\ delivered = 2 /\ sigs[1] = <<>>

\* C12: with backups disabled the backup step never copies, returns success,
\* and Run's restart path goes from the backup step straight to DoUpgrade.
C12_SkipBackupIsNoOp ==
    skipBackup =>
        /\ backup \in {"none", "skipped"}
        /\ pc # "copy"
        /\ ret.err # BackupErr
        /\ waitRet = Result(TRUE, Nil) /\ pc = "done" => backup = "skipped" /\ upgraded

\* C12 witness: backups disabled, upgrade detected, Run returned (true, nil)
C12_Witness ==
    /\ skipBackup /\ pc = "done" /\ backup = "skipped"
    /\ ret = Result(TRUE, Nil)

\* C13: when CurrentBin, EnsureBinary or cmd.Start fails, Run returns
\* (false, that error) and in that run there is no child, no relay
\* goroutine, no wait, no backup and no DoUpgrade.
C13_StartErrorEndsRun ==
    (pc = "done" /\ child[run] = "none") =>
        /\ ret.err \in StartErrs
        /\ ~ret.needs
        /\ relay[run] = "none" /\ sigs[run] = <<>>
        /\ waiter[run] = "none" /\ waitRet = Pending
        /\ backup = "none"
        /\ ~upgraded

\* C13 witness: cmd.Start failed in a run
C13_Witness ==
    /\ pc = "done" /\ child[run] = "none"
    /\ ret = Result(FALSE, "launching process failed")


\* C15: the step that sends the kill on the notification branch always
\* leaves WaitForUpgradeOrExit with (true, nil) and the supervisor running,
\* whether Process.Kill returned an error or not.
C15_KillFailureNotEscalated ==
    [][(pc = "kill" /\ pc' # "kill") =>
          /\ killSent'
          /\ waitRet' = Result(TRUE, Nil)
          /\ pc' = "checkwait"
          /\ alive']_vars

\* C15 witness: the kill failed (the child had already been waited on) and
\* WaitForUpgradeOrExit returned (true, nil)
C15_Witness ==
    /\ pc = "checkwait" /\ notified /\ alive
    /\ killErr # Nil
    /\ waitRet = Result(TRUE, Nil)

\* C16: on the process-completion branch the watcher is stopped before the
\* exit error is inspected; CheckUpdate is called at most once per run and
\* only for a non-nil exit error; after a clean exit there is no check and
\* the result is (false, nil) whatever the artifact holds.
C16_StopThenSingleCheck ==
    /\ checks <= 1
    /\ pc \in {"inspect", "recheck"} => watcher = "stopped"
    /\ checks = 1 => selErr # Nil /\ ~notified /\ watcher = "stopped"
    /\ (waitRet # Pending /\ ~notified /\ selErr = Nil) =>
          /\ checks = 0
          /\ waitRet = Result(FALSE, Nil)
          /\ pc = "done" => ret = Result(FALSE, Nil)

\* C16 witness: a clean exit with the artifact present: watcher stopped, no
\* check, (false, nil)
C16_Witness ==
    /\ pc = "done" /\ ~notified /\ child[run] = "reaped"
    /\ selErr = Nil /\ artifact /\ watcher = "stopped"
    /\ checks = 0
    /\ ret = Result(FALSE, Nil)

\* the select received the notification, or the recheck after a non-nil exit
\* error matched
UpgradeEvidence ==
    \/ notified
    \/ checks = 1 /\ selErr # Nil /\ artifact /\ waitRet = Result(TRUE, Nil)

\* C19: Run returns needsRestart=true only in a run with upgrade evidence
\* (notification received, or a matching recheck after a non-nil exit
\* error), and DoUpgrade is invoked only in such a run after the backup step
\* succeeded (copied or skipped).
C19_RestartOnlyWithEvidence ==
    /\ (pc = "done" /\ ret.needs) => UpgradeEvidence /\ upgraded
    /\ (upgraded \/ pc = "upgrade") => UpgradeEvidence /\ backup \in {"ok", "skipped"}

\* C19 witness: restart requested on the strength of the recheck alone
C19_Witness ==
    /\ pc = "done" /\ ret.needs /\ upgraded
    /\ ~notified /\ checks = 1
    /\ backup = "ok"


\* C17: once info is non-nil no step changes err or info; err changes only in
\* the body of a SetError call whose argument is non-nil, made by the holder
\* of the mutex; an AsResult returns the pair (info, err) as it stands while
\* the caller holds the mutex; at most one goroutine is between Lock and
\* Unlock.
C17_InfoFreezesCell ==
    [][/\ wrInfo' = wrInfo
       /\ wrInfo # Nil => wrErr' = wrErr
       /\ wrErr' # wrErr =>
             /\ mutex \in Goroutines
             /\ gpc[mutex] = "set_body"
             /\ garg[mutex] # Nil
             /\ wrErr' = garg[mutex]
       /\ \A g \in Goroutines :
             gres'[g] # gres[g] =>
                /\ mutex = g /\ gpc[g] = "as_body"
                /\ gres'[g] = <<wrInfo, wrErr>>
                /\ wrErr' = wrErr
       /\ Cardinality({g \in Goroutines : gpc[g] \in {"set_body", "as_body", "unlock"}}) <= 1
      ]_vars

\* C17 witness: info is set, a SetError with a non-nil error has run its body
\* without recording it, and another goroutine's AsResult returned (info, nil)
C17_Witness ==
    /\ wrInfo = SomeInfo /\ wrErr = Nil
    /\ \E g, h \in Goroutines :
          /\ g # h
          /\ gpc[g] = "unlock" /\ garg[g] \in Errs /\ gres[g] = <<Nil, Nil>>
          /\ gres[h] = <<SomeInfo, Nil>>

\* C18 (as stated): a relay goroutine takes a signal and calls Signal on its
\* child only during its own run, and only the current run's relay goroutine
\* can end the supervisor.
C18_OldRelayNeverSignals ==
    [][\A r \in Runs :
          /\ (relay[r] = "recv" /\ relay'[r] # "recv") => r = run
          /\ (relay[r] # "fatal" /\ relay'[r] = "fatal") => r = run]_vars


\* C14 (as stated): once the select has taken the notification and the waiter
\* goroutine holds the child's exit error, that goroutine eventually
\* finishes (or the supervisor process ends).
C14_WaiterFinishes ==
    \A r \in Runs :
        [](run = r /\ notified /\ waiter[r] = "sending"
              => <>(waiter[r] = "done" \/ ~alive))

\* a completion source has occurred in this run: the child has ended, or the
\* watcher offers its notification
SourceOccurred ==
    \/ child[run] \in {"exited", "reaped"}
    \/ watcher = "sending"

\* Run is past the select of this run
PastSelect ==
    \/ pc \in {"kill", "stop", "inspect", "recheck", "checkwait", "backup",
               "copy", "upgrade"}
    \/ pc = "done" /\ child[run] # "none"

\* Run passes the select only by receiving from one of the two sources
BlocksUntilSource ==
    /\ [](PastSelect => notified \/ (child[run] = "reaped" /\ waiter[run] = "done"))
    /\ [][(pc = "select" /\ pc' # "select") =>
             watcher = "sending" \/ waiter[run] = "sending"]_vars

\* C20 (as stated): Run does not get past the select before a completion
\* source has occurred, and once one has occurred Run eventually returns.
C20_ReturnsAfterSource ==
    /\ BlocksUntilSource
    /\ SourceOccurred ~> pc = "done"

\* C20 (amended): Run does not get past the select before a completion source
\* has occurred, and once one has occurred Run eventually returns unless a
\* relay goroutine ends the supervisor process first.
C20_ReturnsOrSupervisorEnds ==
    /\ BlocksUntilSource
    /\ SourceOccurred ~> (pc = "done" \/ ~alive)

\* C20 witness: Run returned after the child ended on its own, supervisor alive
C20_Witness ==
    /\ pc = "done" /\ alive
    /\ child[run] = "reaped" /\ waiter[run] = "done" /\ ~notified
    /\ ret # Pending

====
